---- MODULE Spec2Model ----
(***************************************************************************)
(* Model of yasumi-rs: the Japanese public-holiday engine.                 *)
(*                                                                         *)
(* The library is a set of pure functions over chrono::NaiveDate.  A date  *)
(* is the record [year, month, day]; Option<T> is [some, val]; a String is *)
(* a sequence of tokens, so that format!("{} ...", name) is a real         *)
(* concatenation.  The holiday names are written in romaji because the     *)
(* module is ASCII; the comment of each name gives the source literal.     *)
(*                                                                         *)
(* The state machine is one call of the public API: Init draws the input,  *)
(* each action is one public function applied to it, and stores what the   *)
(* call returned (or that it panicked).                                    *)
(***************************************************************************)
EXTENDS Integers, Sequences, FiniteSets, TLC

VARIABLES input, op, result, fault

vars == <<input, op, result, fault>>

-----------------------------------------------------------------------------
(* chrono::NaiveDate                                                       *)

NoDate == [year |-> 0, month |-> 0, day |-> 0]

None == [some |-> FALSE, val |-> NoDate]

Some(d) == [some |-> TRUE, val |-> d]

\* Option<String>: the absent name
NoName == [some |-> FALSE, val |-> <<>>]

SomeName(s) == [some |-> TRUE, val |-> s]

Ymd(y, m, d) == [year |-> y, month |-> m, day |-> d]

IsLeap(y) == (y % 4 = 0 /\ y % 100 # 0) \/ y % 400 = 0

DaysInMonth(y, m) ==
    IF m = 2 THEN (IF IsLeap(y) THEN 29 ELSE 28)
    ELSE IF m \in {4, 6, 9, 11} THEN 30 ELSE 31

\* chrono's representable range (NaiveDate::MIN, NaiveDate::MAX)
MIN == Ymd(-262143, 1, 1)

MAX == Ymd(262142, 12, 31)

\* NaiveDate::from_ymd_opt
from_ymd_opt(y, m, d) ==
    IF /\ y >= MIN.year /\ y <= MAX.year
       /\ m >= 1 /\ m <= 12
       /\ d >= 1 /\ d <= DaysInMonth(y, m)
    THEN Some(Ymd(y, m, d))
    ELSE None

\* NaiveDate::succ_opt
succ_opt(date) ==
    IF date = MAX THEN None
    ELSE IF date.day < DaysInMonth(date.year, date.month)
         THEN Some(Ymd(date.year, date.month, date.day + 1))
    ELSE IF date.month < 12 THEN Some(Ymd(date.year, date.month + 1, 1))
    ELSE Some(Ymd(date.year + 1, 1, 1))

\* NaiveDate::pred_opt
pred_opt(date) ==
    IF date = MIN THEN None
    ELSE IF date.day > 1 THEN Some(Ymd(date.year, date.month, date.day - 1))
    ELSE IF date.month > 1
         THEN Some(Ymd(date.year, date.month - 1,
                       DaysInMonth(date.year, date.month - 1)))
    ELSE Some(Ymd(date.year - 1, 12, 31))

\* days before the first day of month m in a common year
DaysBeforeMonth == <<0, 31, 59, 90, 120, 151, 181, 212, 243, 273, 304, 334>>

\* Datelike::ordinal
ordinal(date) ==
    DaysBeforeMonth[date.month] + date.day
        + (IF date.month > 2 /\ IsLeap(date.year) THEN 1 ELSE 0)

\* Datelike::num_days_from_ce: 0001-01-01 is day 1 (a Monday)
num_days_from_ce(date) ==
    LET y == date.year - 1
    IN  365 * y + (y \div 4) - (y \div 100) + (y \div 400) + ordinal(date)

\* date.weekday().number_from_monday(): Monday = 1 .. Sunday = 7
number_from_monday(date) == ((num_days_from_ce(date) - 1) % 7) + 1

\* NaiveDate + Duration::days(n), n >= 0 (None when it leaves the range)
RECURSIVE AddDays(_, _)
AddDays(date, n) ==
    IF n = 0 THEN Some(date)
    ELSE LET s == succ_opt(date)
         IN  IF s.some THEN AddDays(s.val, n - 1) ELSE None

\* date1 <= date2 (NaiveDate's derived ordering)
DateLe(a, b) ==
    \/ a.year < b.year
    \/ a.year = b.year /\ a.month < b.month
    \/ a.year = b.year /\ a.month = b.month /\ a.day <= b.day

-----------------------------------------------------------------------------
(* public_holiday.rs                                                       *)

\* Option::unwrap on an Option<NaiveDate>
unwrap(o) == o.val

\* week_day that counts its weeks from the date it is given instead of from
\* the first day of the month
week_day_from_date(date, week, weekday) ==
    IF ~(week >= 1 /\ week <= 5) THEN None
    ELSE IF ~(weekday >= 1 /\ weekday <= 7) THEN None
    ELSE LET days_to_first_weekday ==
                 (weekday + 7 - number_from_monday(date)) % 7
             target_date ==
                 AddDays(date, days_to_first_weekday + 7 * (week - 1))
         IN  IF target_date.some /\ target_date.val.month = date.month
             THEN target_date
             ELSE None

\* week_day(date, week, weekday): the week-th weekday of the month of date
week_day(date, week, weekday) ==
    IF ~(week >= 1 /\ week <= 5) THEN None
    ELSE IF ~(weekday >= 1 /\ weekday <= 7) THEN None
    ELSE LET first_day_of_month == from_ymd_opt(date.year, date.month, 1)
         IN  IF ~first_day_of_month.some THEN None
             ELSE LET first_weekday_of_month ==
                          number_from_monday(first_day_of_month.val)
                      days_to_first_weekday ==
                          (weekday + 7 - first_weekday_of_month) % 7
                      target_date ==
                          AddDays(first_day_of_month.val,
                                  days_to_first_weekday + 7 * (week - 1))
                  IN  IF target_date.some
                         /\ target_date.val.month = date.month
                      THEN target_date
                      ELSE None

\* week_day panics: NaiveDate + Duration panics when the sum leaves the
\* representable range, which the target date does in the last December
week_day_overflows(date, week, weekday) ==
    /\ week >= 1 /\ week <= 5
    /\ weekday >= 1 /\ weekday <= 7
    /\ LET first_day_of_month == from_ymd_opt(date.year, date.month, 1)
       IN  /\ first_day_of_month.some
           /\ ~AddDays(first_day_of_month.val,
                       ((weekday + 7
                             - number_from_monday(first_day_of_month.val)) % 7)
                           + 7 * (week - 1)).some

\* the equinox day with (year - 1980) / 4 taken in i32, which rounds toward
\* zero instead of down in the years before 1980
equinox_day_i32_quarter(i, year) ==
    LET x == year - 1980
        q == x \div 1000
        r == x % 1000
        quarter == IF x < 0 THEN 0 - ((0 - x) \div 4) ELSE x \div 4
        v == 242 * q + ((i * 100 + 242194 * r + 194000 * q) \div 1000000)
                 - quarter
    IN  IF v < 0 THEN 0 ELSE v

\* f64 floor(i + 0.242194 * (year - 1980) - floor((year - 1980) / 4)) as u32,
\* with i given in 1/10000.  The product is split at 1000 years so that it
\* stays within 32 bits; a negative value saturates to 0 in the cast.
equinox_day(i, year) ==
    LET x == year - 1980
        q == x \div 1000
        r == x % 1000
        v == 242 * q + ((i * 100 + 242194 * r + 194000 * q) \div 1000000)
                 - (x \div 4)
    IN  IF v < 0 THEN 0 ELSE v

\* vernal_equinox_day with its last band left open: 21.8510 from 2100 on
vernal_equinox_day_open_band(year) ==
    IF year <= 1948 THEN 0
    ELSE equinox_day(IF year >= 1851 /\ year <= 1899 THEN 198277
                     ELSE IF year >= 1900 /\ year <= 1979 THEN 208357
                     ELSE IF year >= 1980 /\ year <= 2099 THEN 208431
                     ELSE IF year >= 2100 THEN 218510
                     ELSE 0, year)

\* vernal_equinox_day(year)
vernal_equinox_day(year) ==
    IF year <= 1948 THEN 0
    ELSE equinox_day(IF year >= 1851 /\ year <= 1899 THEN 198277
                     ELSE IF year >= 1900 /\ year <= 1979 THEN 208357
                     ELSE IF year >= 1980 /\ year <= 2099 THEN 208431
                     ELSE IF year >= 2100 /\ year <= 2150 THEN 218510
                     ELSE 0, year)

\* autumnal_equinox_day(year)
autumnal_equinox_day(year) ==
    IF year <= 1948 THEN 0
    ELSE equinox_day(IF year >= 1851 /\ year <= 1899 THEN 222588
                     ELSE IF year >= 1900 /\ year <= 1979 THEN 232588
                     ELSE IF year >= 1980 /\ year <= 2099 THEN 232488
                     ELSE IF year >= 2100 /\ year <= 2150 THEN 242488
                     ELSE 0, year)

\* "元日"
NewYearsDay(date) == date.month = 1 /\ date.day = 1

\* Coming of Age Day kept on January 15 after 1999
ComingOfAgeDay_january_15(date) == date.month = 1 /\ date.day = 15

\* "成人の日"
ComingOfAgeDay(date) ==
    \/ date.year <= 1999 /\ date.month = 1 /\ date.day = 15
    \/ /\ date.year >= 2000
       /\ date.month = 1
       /\ date.day = unwrap(week_day(date, 2, 1)).day

\* "建国記念の日"
NationalFoundationDay(date) ==
    date.year >= 1967 /\ date.month = 2 /\ date.day = 11

\* the Emperor's Birthday kept on December 23 through 2019, without the gap
\* of the year of the abdication
EmperorsBirthday_without_gap(date) ==
    \/ date.year >= 1948 /\ date.year <= 1988 /\ date.month = 4 /\ date.day = 29
    \/ date.year >= 1989 /\ date.year <= 2019 /\ date.month = 12 /\ date.day = 23
    \/ date.year >= 2020 /\ date.month = 2 /\ date.day = 23

\* "天皇誕生日"
EmperorsBirthday(date) ==
    \/ date.year >= 1948 /\ date.year <= 1988 /\ date.month = 4 /\ date.day = 29
    \/ date.year >= 1989 /\ date.year <= 2018 /\ date.month = 12 /\ date.day = 23
    \/ date.year >= 2020 /\ date.month = 2 /\ date.day = 23

\* "春分の日"
VernalEquinoxDay(date) ==
    date.month = 3 /\ date.day = vernal_equinox_day(date.year)

\* Greenery Day without the test of the day in its second window
GreeneryDay_all_of_may(date) ==
    \/ date.year >= 1989 /\ date.year <= 2006 /\ date.month = 4 /\ date.day = 29
    \/ date.year >= 2007 /\ date.month = 5

\* "みどりの日"
GreeneryDay(date) ==
    \/ date.year >= 1989 /\ date.year <= 2006 /\ date.month = 4 /\ date.day = 29
    \/ date.year >= 2007 /\ date.month = 5 /\ date.day = 4

\* April 29 as Showa Day in every year
ShowaDay_every_year(date) == date.month = 4 /\ date.day = 29

\* "昭和の日"
ShowaDay(date) == date.year >= 2007 /\ date.month = 4 /\ date.day = 29

\* "憲法記念日"
ConstitutionMemorialDay(date) == date.month = 5 /\ date.day = 3

\* "こどもの日"
ChildrensDay(date) == date.month = 5 /\ date.day = 5

\* "海の日"
MarineDay(date) ==
    IF date.year = 2020 THEN date = Ymd(2020, 7, 23)
    ELSE IF date.year = 2021 THEN date = Ymd(2021, 7, 22)
    ELSE \/ date.year >= 1996 /\ date.year <= 2002
            /\ date.month = 7 /\ date.day = 20
         \/ /\ date.year >= 2003
            /\ date.month = 7
            /\ date.day = unwrap(week_day(date, 3, 1)).day

\* "山の日"
MountainDay(date) ==
    IF date.year = 2020 THEN date = Ymd(2020, 8, 10)
    ELSE IF date.year = 2021 THEN date = Ymd(2021, 8, 8)
    ELSE date.year >= 2016 /\ date.month = 8 /\ date.day = 11

\* Respect for the Aged Day kept on September 15 after 2002
RespectForTheAgedDay_september_15(date) ==
    date.year >= 1966 /\ date.month = 9 /\ date.day = 15

\* "敬老の日"
RespectForTheAgedDay(date) ==
    \/ date.year >= 1966 /\ date.year <= 2002 /\ date.month = 9 /\ date.day = 15
    \/ /\ date.year >= 2003
       /\ date.month = 9
       /\ date.day = unwrap(week_day(date, 3, 1)).day

\* "秋分の日"
AutumnalEquinoxDay(date) ==
    date.month = 9 /\ date.day = autumnal_equinox_day(date.year)

\* "体育の日"
HealthAndSportsDay(date) ==
    \/ date.year >= 1966 /\ date.year <= 1999 /\ date.month = 10 /\ date.day = 10
    \/ /\ date.year >= 2000
       /\ date.year <= 2019
       /\ date.month = 10
       /\ date.day = unwrap(week_day(date, 2, 1)).day

\* Sports Day by the general rule alone, without the dates of 2020 and 2021
SportsDay_without_exceptions(date) ==
    /\ date.year >= 2020
    /\ date.month = 10
    /\ date.day = unwrap(week_day(date, 2, 1)).day

\* "スポーツの日"
SportsDay(date) ==
    IF date.year = 2020 THEN date = Ymd(2020, 7, 24)
    ELSE IF date.year = 2021 THEN date = Ymd(2021, 7, 23)
    ELSE /\ date.year >= 2020
         /\ date.month = 10
         /\ date.day = unwrap(week_day(date, 2, 1)).day

\* "文化の日"
CultureDay(date) == date.month = 11 /\ date.day = 3

\* "勤労感謝の日"
LaborThanksgivingDay(date) == date.month = 11 /\ date.day = 23

\* "皇太子・明仁親王の結婚の儀"
ImperialEventsTheWeddingCeremonyOfCrownPrinceAkihito(date) ==
    date = Ymd(1959, 4, 10)

\* the funeral of Emperor Showa on February 24 of every year
ImperialEventsTheFuneralOfEmperorShowa_every_year(date) ==
    date.month = 2 /\ date.day = 24

\* "昭和天皇の大喪の礼"
ImperialEventsTheFuneralOfEmperorShowa(date) == date = Ymd(1989, 2, 24)

\* "即位の礼正殿の儀"
ImperialEventsTheCeremonyOfTheEnthronementOfTheEmperor(date) ==
    date = Ymd(1990, 11, 12)

\* "皇太子・皇太子徳仁親王の結婚の儀"
ImperialEventsTheWeddingCeremonyOfCrownPrinceNaruhito(date) ==
    date = Ymd(1993, 6, 9)

\* "天皇の即位の日"
ImperialEventsTheDayOfTheEmperorsEnthronement(date) == date = Ymd(2019, 5, 1)

\* the enthronement ceremony on October 22 of every year
ImperialEventsTheEnthronementCeremony_every_year(date) ==
    date.month = 10 /\ date.day = 22

\* "即位礼正殿の儀"
ImperialEventsTheEnthronementCeremony(date) == date = Ymd(2019, 10, 22)

\* the HOLIDAYS array, in its order
HOLIDAYS ==
    << "NewYearsDay", "ComingOfAgeDay", "NationalFoundationDay",
       "EmperorsBirthday", "VernalEquinoxDay", "GreeneryDay", "ShowaDay",
       "ConstitutionMemorialDay", "ChildrensDay", "MarineDay", "MountainDay",
       "RespectForTheAgedDay", "AutumnalEquinoxDay", "HealthAndSportsDay",
       "SportsDay", "CultureDay", "LaborThanksgivingDay",
       "ImperialEventsTheWeddingCeremonyOfCrownPrinceAkihito",
       "ImperialEventsTheFuneralOfEmperorShowa",
       "ImperialEventsTheCeremonyOfTheEnthronementOfTheEmperor",
       "ImperialEventsTheWeddingCeremonyOfCrownPrinceNaruhito",
       "ImperialEventsTheDayOfTheEmperorsEnthronement",
       "ImperialEventsTheEnthronementCeremony" >>

\* PublicHoliday::is_holiday, dispatched on the member of HOLIDAYS
PublicHoliday_is_holiday(holiday, date) ==
    CASE holiday = "NewYearsDay" -> NewYearsDay(date)
      [] holiday = "ComingOfAgeDay" -> ComingOfAgeDay(date)
      [] holiday = "NationalFoundationDay" -> NationalFoundationDay(date)
      [] holiday = "EmperorsBirthday" -> EmperorsBirthday(date)
      [] holiday = "VernalEquinoxDay" -> VernalEquinoxDay(date)
      [] holiday = "GreeneryDay" -> GreeneryDay(date)
      [] holiday = "ShowaDay" -> ShowaDay(date)
      [] holiday = "ConstitutionMemorialDay" -> ConstitutionMemorialDay(date)
      [] holiday = "ChildrensDay" -> ChildrensDay(date)
      [] holiday = "MarineDay" -> MarineDay(date)
      [] holiday = "MountainDay" -> MountainDay(date)
      [] holiday = "RespectForTheAgedDay" -> RespectForTheAgedDay(date)
      [] holiday = "AutumnalEquinoxDay" -> AutumnalEquinoxDay(date)
      [] holiday = "HealthAndSportsDay" -> HealthAndSportsDay(date)
      [] holiday = "SportsDay" -> SportsDay(date)
      [] holiday = "CultureDay" -> CultureDay(date)
      [] holiday = "LaborThanksgivingDay" -> LaborThanksgivingDay(date)
      [] holiday = "ImperialEventsTheWeddingCeremonyOfCrownPrinceAkihito" ->
             ImperialEventsTheWeddingCeremonyOfCrownPrinceAkihito(date)
      [] holiday = "ImperialEventsTheFuneralOfEmperorShowa" ->
             ImperialEventsTheFuneralOfEmperorShowa(date)
      [] holiday = "ImperialEventsTheCeremonyOfTheEnthronementOfTheEmperor" ->
             ImperialEventsTheCeremonyOfTheEnthronementOfTheEmperor(date)
      [] holiday = "ImperialEventsTheWeddingCeremonyOfCrownPrinceNaruhito" ->
             ImperialEventsTheWeddingCeremonyOfCrownPrinceNaruhito(date)
      [] holiday = "ImperialEventsTheDayOfTheEmperorsEnthronement" ->
             ImperialEventsTheDayOfTheEmperorsEnthronement(date)
      [] holiday = "ImperialEventsTheEnthronementCeremony" ->
             ImperialEventsTheEnthronementCeremony(date)

\* PublicHoliday::name: the source literal is in the comment of each line
PublicHoliday_name(holiday) ==
    CASE holiday = "NewYearsDay" -> <<"Ganjitsu">>                \* 元日
      [] holiday = "ComingOfAgeDay" -> <<"Seijin no Hi">>         \* 成人の日
      [] holiday = "NationalFoundationDay" ->
             <<"Kenkoku Kinen no Hi">>                            \* 建国記念の日
      [] holiday = "EmperorsBirthday" -> <<"Tenno Tanjobi">>      \* 天皇誕生日
      [] holiday = "VernalEquinoxDay" -> <<"Shunbun no Hi">>      \* 春分の日
      [] holiday = "GreeneryDay" -> <<"Midori no Hi">>            \* みどりの日
      [] holiday = "ShowaDay" -> <<"Showa no Hi">>                \* 昭和の日
      [] holiday = "ConstitutionMemorialDay" -> <<"Kenpo Kinenbi">> \* 憲法記念日
      [] holiday = "ChildrensDay" -> <<"Kodomo no Hi">>           \* こどもの日
      [] holiday = "MarineDay" -> <<"Umi no Hi">>                 \* 海の日
      [] holiday = "MountainDay" -> <<"Yama no Hi">>              \* 山の日
      [] holiday = "RespectForTheAgedDay" -> <<"Keiro no Hi">>    \* 敬老の日
      [] holiday = "AutumnalEquinoxDay" -> <<"Shubun no Hi">>     \* 秋分の日
      [] holiday = "HealthAndSportsDay" -> <<"Taiiku no Hi">>     \* 体育の日
      [] holiday = "SportsDay" -> <<"Supotsu no Hi">>             \* スポーツの日
      [] holiday = "CultureDay" -> <<"Bunka no Hi">>              \* 文化の日
      [] holiday = "LaborThanksgivingDay" ->
             <<"Kinro Kansha no Hi">>                             \* 勤労感謝の日
      [] holiday = "ImperialEventsTheWeddingCeremonyOfCrownPrinceAkihito" ->
             <<"Kotaishi Akihito Shinno no Kekkon no Gi">>
      [] holiday = "ImperialEventsTheFuneralOfEmperorShowa" ->
             <<"Showa Tenno no Taiso no Rei">>
      [] holiday = "ImperialEventsTheCeremonyOfTheEnthronementOfTheEmperor" ->
             <<"Sokui no Rei Seiden no Gi">>
      [] holiday = "ImperialEventsTheWeddingCeremonyOfCrownPrinceNaruhito" ->
             <<"Kotaishi Naruhito Shinno no Kekkon no Gi">>
      [] holiday = "ImperialEventsTheDayOfTheEmperorsEnthronement" ->
             <<"Tenno no Sokui no Hi">>
      [] holiday = "ImperialEventsTheEnthronementCeremony" ->
             <<"Sokuirei Seiden no Gi">>

\* week_day(date, week, weekday).unwrap() panics: week_day returned None, or
\* panicked itself in its additions
week_day_unwrap_panics(date, week, weekday) ==
    \/ week_day_overflows(date, week, weekday)
    \/ ~week_day(date, week, weekday).some

\* PublicHoliday::is_holiday panics: the && chain of a rule reaches its
\* week_day(..).unwrap() once the tests before it held
PublicHoliday_is_holiday_panics(holiday, date) ==
    CASE holiday = "ComingOfAgeDay" ->
             /\ date.year >= 2000 /\ date.month = 1
             /\ week_day_unwrap_panics(date, 2, 1)
      [] holiday = "MarineDay" ->
             /\ date.year # 2020 /\ date.year # 2021
             /\ date.year >= 2003 /\ date.month = 7
             /\ week_day_unwrap_panics(date, 3, 1)
      [] holiday = "RespectForTheAgedDay" ->
             /\ date.year >= 2003 /\ date.month = 9
             /\ week_day_unwrap_panics(date, 3, 1)
      [] holiday = "HealthAndSportsDay" ->
             /\ date.year >= 2000 /\ date.year <= 2019 /\ date.month = 10
             /\ week_day_unwrap_panics(date, 2, 1)
      [] holiday = "SportsDay" ->
             /\ date.year # 2020 /\ date.year # 2021
             /\ date.year >= 2020 /\ date.month = 10
             /\ week_day_unwrap_panics(date, 2, 1)
      [] OTHER -> FALSE

\* HOLIDAYS.iter().filter(..).count() panics: some member does
filtered_holiday_panics(date) ==
    \E i \in 1..Len(HOLIDAYS) : PublicHoliday_is_holiday_panics(HOLIDAYS[i], date)

\* HOLIDAYS.iter().filter(|holiday| holiday.is_holiday(&date)): the indices
\* of the matching members, to be read in ascending (list) order
filtered_holiday(date) ==
    {i \in 1..Len(HOLIDAYS) : PublicHoliday_is_holiday(HOLIDAYS[i], date)}

\* Iterator::next on a non-empty filter: the first matching member
first_holiday(matching) ==
    HOLIDAYS[CHOOSE i \in matching : \A j \in matching : i <= j]

\* " 振替休日", the suffix of a substitute holiday
SubstituteSuffix == <<" Furikae Kyujitsu">>

\* "国民の休日", the citizen's holiday
NationalHoliday == <<"Kokumin no Kyujitsu">>

\* a scan that walks back to the nearest Sunday whatever lies between, and
\* tests only that Sunday against the rules
RECURSIVE substitute_scan_any_sunday(_)
substitute_scan_any_sunday(current_date) ==
    IF number_from_monday(current_date) = 7
    THEN LET matching == filtered_holiday(current_date)
         IN  IF Cardinality(matching) = 0 THEN NoName
             ELSE SomeName(PublicHoliday_name(first_holiday(matching))
                               \o SubstituteSuffix)
    ELSE substitute_scan_any_sunday(unwrap(pred_opt(current_date)))

\* a scan that gives up after the first visited day instead of walking on
substitute_scan_one_day(current_date) ==
    LET matching == filtered_holiday(current_date)
    IN  IF Cardinality(matching) = 0 THEN NoName
        ELSE IF number_from_monday(current_date) = 7
             THEN SomeName(PublicHoliday_name(first_holiday(matching))
                               \o SubstituteSuffix)
        ELSE NoName

\* the scan of substitute_holiday from current_date backward
RECURSIVE substitute_scan(_)
substitute_scan(current_date) ==
    LET matching == filtered_holiday(current_date)
    IN  IF Cardinality(matching) = 0 THEN NoName
        ELSE IF number_from_monday(current_date) = 7
             THEN SomeName(PublicHoliday_name(first_holiday(matching))
                               \o SubstituteSuffix)
        ELSE substitute_scan(unwrap(pred_opt(current_date)))

\* substitute_holiday without the cutoff of 1973
substitute_holiday_no_cutoff(date) ==
    IF number_from_monday(date) = 7 THEN NoName
    ELSE substitute_scan(unwrap(pred_opt(date)))

\* substitute_holiday(date)
substitute_holiday(date) ==
    IF date.year < 1973 THEN NoName
    ELSE IF number_from_monday(date) = 7 THEN NoName
    ELSE substitute_scan(unwrap(pred_opt(date)))

\* a loop that walks back to the first day of the year whatever it visits:
\* it visits as many days as the day of the year it starts on
substitute_visits_to_new_year(current_date) == ordinal(current_date)

\* the iterations of the loop of substitute_holiday from current_date
\* backward: the days it visits until one of its two returns
RECURSIVE substitute_visits(_)
substitute_visits(current_date) ==
    LET matching == filtered_holiday(current_date)
    IN  IF Cardinality(matching) = 0 THEN 1
        ELSE IF number_from_monday(current_date) = 7 THEN 1
        ELSE 1 + substitute_visits(unwrap(pred_opt(current_date)))

\* the days substitute_holiday(date) visits before it returns
substitute_holiday_visits(date) ==
    IF date.year < 1973 THEN 0
    ELSE IF number_from_monday(date) = 7 THEN 0
    ELSE substitute_visits(unwrap(pred_opt(date)))

\* the loop of substitute_holiday panics: a rule panics on a visited day, or
\* current_date -= Duration::days(1) leaves the representable range
RECURSIVE substitute_scan_panics(_)
substitute_scan_panics(current_date) ==
    IF filtered_holiday_panics(current_date) THEN TRUE
    ELSE IF Cardinality(filtered_holiday(current_date)) = 0 THEN FALSE
    ELSE IF number_from_monday(current_date) = 7 THEN FALSE
    ELSE IF ~pred_opt(current_date).some THEN TRUE
    ELSE substitute_scan_panics(pred_opt(current_date).val)

\* substitute_holiday(date) panics: in *date - Duration::days(1), or in its
\* loop
substitute_holiday_panics(date) ==
    IF date.year < 1973 THEN FALSE
    ELSE IF number_from_monday(date) = 7 THEN FALSE
    ELSE IF ~pred_opt(date).some THEN TRUE
    ELSE substitute_scan_panics(pred_opt(date).val)

-----------------------------------------------------------------------------
(* lib.rs                                                                  *)

\* DateLike::date for Option<NaiveDate> (and NaiveDate, passed as Some)
DateLike_date(x) == IF x.some THEN Some(x.val) ELSE None

\* a text "<y><s1><m><s2><d>": three numbers and the two separators between
Text(y, s1, m, s2, d) == [y |-> y, s1 |-> s1, m |-> m, s2 |-> s2, d |-> d]

\* NaiveDate::parse_from_str(s, "%Y<sep>%m<sep>%d"), Ok as Some, Err as None:
\* the literals of the format must match and the numbers must name a day
parse_from_str(s, sep) ==
    IF s.s1 = sep /\ s.s2 = sep THEN from_ymd_opt(s.y, s.m, s.d) ELSE None

\* DateLike::date for String: "%Y-%m-%d" first, then "%Y/%m/%d"
String_date(s) ==
    LET dashed == parse_from_str(s, "-")
    IN  IF dashed.some THEN Some(dashed.val)
        ELSE LET slashed == parse_from_str(s, "/")
             IN  IF slashed.some THEN Some(slashed.val) ELSE None

\* DateLike::date for &str
str_date(s) == String_date(s)

\* the base resolver asking the substitute resolver first
calc_holiday_without_national_holiday_substitute_first(date) ==
    LET substitute == substitute_holiday(date)
        matching == filtered_holiday(date)
    IN  IF substitute.some THEN substitute
        ELSE IF matching # {}
             THEN SomeName(PublicHoliday_name(first_holiday(matching)))
             ELSE NoName

\* calc_holiday_without_national_holiday, on a NaiveDate
calc_holiday_without_national_holiday(date) ==
    LET matching == filtered_holiday(date)
    IN  IF matching # {}
        THEN SomeName(PublicHoliday_name(first_holiday(matching)))
        ELSE substitute_holiday(date)

\* calc_holiday without the test that excludes Sundays from the bridge
calc_holiday_no_sunday_test(date) ==
    LET holiday_name_ == calc_holiday_without_national_holiday(date)
        next_day == succ_opt(date)
        prev_day == pred_opt(date)
    IN  IF holiday_name_.some THEN holiday_name_
        ELSE IF ~next_day.some THEN NoName
        ELSE IF ~prev_day.some THEN NoName
        ELSE IF /\ calc_holiday_without_national_holiday(next_day.val).some
                /\ calc_holiday_without_national_holiday(prev_day.val).some
             THEN SomeName(NationalHoliday)
             ELSE NoName

\* calc_holiday that stops after the non-bridging resolver
calc_holiday_no_bridge(date) == calc_holiday_without_national_holiday(date)

\* calc_holiday that bridges a day as soon as one of its two neighbours is a
\* holiday
calc_holiday_either_neighbour(date) ==
    LET holiday_name_ == calc_holiday_without_national_holiday(date)
        next_day == succ_opt(date)
        prev_day == pred_opt(date)
    IN  IF holiday_name_.some THEN holiday_name_
        ELSE IF number_from_monday(date) = 7 THEN NoName
        ELSE IF ~next_day.some THEN NoName
        ELSE IF ~prev_day.some THEN NoName
        ELSE IF \/ calc_holiday_without_national_holiday(next_day.val).some
                \/ calc_holiday_without_national_holiday(prev_day.val).some
             THEN SomeName(NationalHoliday)
             ELSE NoName

\* calc_holiday that bridges without looking at the day before
calc_holiday_next_day_only(date) ==
    LET holiday_name_ == calc_holiday_without_national_holiday(date)
        next_day == succ_opt(date)
        prev_day == pred_opt(date)
    IN  IF holiday_name_.some THEN holiday_name_
        ELSE IF number_from_monday(date) = 7 THEN NoName
        ELSE IF ~next_day.some THEN NoName
        ELSE IF ~prev_day.some THEN NoName
        ELSE IF calc_holiday_without_national_holiday(next_day.val).some
             THEN SomeName(NationalHoliday)
             ELSE NoName

\* calc_holiday, on a NaiveDate
calc_holiday(date) ==
    LET holiday_name_ == calc_holiday_without_national_holiday(date)
    IN  IF holiday_name_.some THEN holiday_name_
        ELSE IF number_from_monday(date) = 7 THEN NoName
        ELSE LET next_day == succ_opt(date)
                 prev_day == pred_opt(date)
             IN  IF ~next_day.some THEN NoName
                 ELSE IF ~prev_day.some THEN NoName
                 ELSE IF /\ calc_holiday_without_national_holiday(
                                next_day.val).some
                         /\ calc_holiday_without_national_holiday(
                                prev_day.val).some
                      THEN SomeName(NationalHoliday)
                      ELSE NoName

\* is_holiday_name(date: T)
is_holiday_name(x) ==
    LET date == DateLike_date(x)
    IN  IF ~date.some THEN NoName ELSE calc_holiday(date.val)

\* holiday_name that reads a flag which an earlier, panicking call left set
holiday_name_after_fault(x) == IF fault THEN NoName ELSE is_holiday_name(x)

\* holiday_name(date: T)
holiday_name(x) == is_holiday_name(x)

\* is_holiday through the resolver without the bridge
is_holiday_without_bridge(x) ==
    LET date == DateLike_date(x)
    IN  date.some /\ calc_holiday_without_national_holiday(date.val).some

\* is_holiday(date: T)
is_holiday(x) == is_holiday_name(x).some

\* is_no_workday that counts only the Sunday as weekend
is_no_workday_sunday_only(x) ==
    LET date == unwrap(DateLike_date(x))
    IN  IF number_from_monday(date) = 7 THEN TRUE
        ELSE is_holiday_name(Some(date)).some

\* is_no_workday(date: T), for a date that is present
is_no_workday(x) ==
    LET date == unwrap(DateLike_date(x))
    IN  IF number_from_monday(date) = 6 \/ number_from_monday(date) = 7
        THEN TRUE
        ELSE is_holiday(Some(date))

\* the loop over day in 1..=31 of month_holidays: what is pushed from day on
RECURSIVE month_days(_, _, _)
month_days(year, month, day) ==
    IF day > 31 THEN <<>>
    ELSE LET date == from_ymd_opt(year, month, day)
             rest == month_days(year, month, day + 1)
         IN  IF ~date.some THEN rest
             ELSE LET name == is_holiday_name(date)
                  IN  IF name.some
                      THEN <<[date |-> date.val, name |-> name.val]>> \o rest
                      ELSE rest

\* month_holidays(year, month)
month_holidays(year, month) == month_days(year, month, 1)

\* the loop over day in 1..=31 inside year_holidays
RECURSIVE year_days(_, _, _)
year_days(year, month, day) ==
    IF day > 31 THEN <<>>
    ELSE LET date == from_ymd_opt(year, month, day)
             rest == year_days(year, month, day + 1)
         IN  IF ~date.some THEN rest
             ELSE LET name == is_holiday_name(date)
                  IN  IF name.some
                      THEN <<[date |-> date.val, name |-> name.val]>> \o rest
                      ELSE rest

\* a loop over month in 1..12 that leaves December out
RECURSIVE year_months_without_december(_, _)
year_months_without_december(year, month) ==
    IF month >= 12 THEN <<>>
    ELSE year_days(year, month, 1)
             \o year_months_without_december(year, month + 1)

\* the loop over month in 1..=12 of year_holidays
RECURSIVE year_months(_, _)
year_months(year, month) ==
    IF month > 12 THEN <<>>
    ELSE year_days(year, month, 1) \o year_months(year, month + 1)

\* year_holidays(year)
year_holidays(year) == year_months(year, 1)

\* the while loop of between from date on, pushing onto the vector holidays:
\* the list collected up to end_date, or the panic of succ_opt().unwrap() on
\* the last representable date
RECURSIVE between_loop(_, _, _)
between_loop(date, end_date, holidays) ==
    IF ~DateLe(date, end_date) THEN [panic |-> FALSE, list |-> holidays]
    ELSE LET name == is_holiday_name(Some(date))
             next == succ_opt(date)
         IN  IF ~next.some THEN [panic |-> TRUE, list |-> <<>>]
             ELSE between_loop(next.val, end_date,
                      IF name.some
                      THEN Append(holidays, [date |-> date, name |-> name.val])
                      ELSE holidays)

\* between(start_date: T, end_date: T)
between(x, y) ==
    LET start_date == DateLike_date(x)
        end_date == DateLike_date(y)
    IN  IF ~start_date.some \/ ~end_date.some
        THEN [panic |-> TRUE, list |-> <<>>]
        ELSE between_loop(start_date.val, end_date.val, <<>>)

\* holidays(start_date: T, end_date: T)
holidays(x, y) == between(x, y)

-----------------------------------------------------------------------------
(* The inputs of a call                                                    *)

\* years before 1900 and after 2150 that the inputs reach
YearsBefore == 1

YearsAfter == 2

\* the first and the last year of the equinox formula's bands in force
FormulaFirstYear == 1900

FormulaLastYear == 2150

Years == (FormulaFirstYear - YearsBefore)..(FormulaLastYear + YearsAfter)

\* the days at each end of the representable range that the inputs reach
EdgeDays == 3

\* Option<NaiveDate> inputs: the days of Years, the days at the two ends of
\* the representable range, and the absent date
IsDateInput(y, m, d) ==
    /\ d <= DaysInMonth(y, m)
    /\ \/ y \in Years
       \/ y = MAX.year /\ m = 12 /\ d > 31 - EdgeDays
       \/ y = MIN.year /\ m = 1 /\ d <= EdgeDays

InputYears == Years \cup {MIN.year, MAX.year}

CallInput(kind, date, end, year, month) ==
    [kind |-> kind, date |-> date, end |-> end, year |-> year, month |-> month]

DateInput(d) == CallInput("date", d, None, 0, 0)

Init ==
    /\ input = CallInput("none", None, None, 0, 0)
    /\ op = "idle"
    /\ result = NoName
    /\ fault = FALSE

\* the caller passes a date, or an absent date (Option<NaiveDate>)
DrawDate ==
    /\ op = "idle"
    /\ \/ \E y \in InputYears, m \in 1..12, d \in 1..31 :
              /\ IsDateInput(y, m, d)
              /\ input' = DateInput(Some(Ymd(y, m, d)))
       \/ input' = DateInput(None)
    /\ op' = "input"
    /\ UNCHANGED <<result, fault>>

\* what a call leaves: the operation, its return value, whether it panicked
Returns(name, value) ==
    /\ op' = name
    /\ result' = value
    /\ fault' = FALSE
    /\ UNCHANGED input

Panics(name) ==
    /\ op' = name
    /\ result' = NoName
    /\ fault' = TRUE
    /\ UNCHANGED input

\* HOLIDAYS.iter().filter(..) on a date: the matching members, in list order
FilteredHoliday ==
    /\ op = "input" /\ input.kind = "date" /\ input.date.some
    /\ IF filtered_holiday_panics(input.date.val)
       THEN Panics("filtered_holiday")
       ELSE Returns("filtered_holiday",
                    {HOLIDAYS[i] : i \in filtered_holiday(input.date.val)})

SubstituteHoliday ==
    /\ op = "input" /\ input.kind = "date" /\ input.date.some
    /\ IF substitute_holiday_panics(input.date.val)
       THEN Panics("substitute_holiday")
       ELSE Returns("substitute_holiday", substitute_holiday(input.date.val))

\* substitute_holiday run for the length of its loop
SubstituteHolidayVisits ==
    /\ op = "input" /\ input.kind = "date" /\ input.date.some
    /\ Returns("substitute_holiday_visits",
               substitute_holiday_visits(input.date.val))

CalcHolidayWithoutNationalHoliday ==
    /\ op = "input" /\ input.kind = "date" /\ input.date.some
    /\ Returns("calc_holiday_without_national_holiday",
               calc_holiday_without_national_holiday(input.date.val))

IsHolidayName ==
    /\ op = "input" /\ input.kind = "date"
    /\ Returns("is_holiday_name", is_holiday_name(input.date))

HolidayName ==
    /\ op = "input" /\ input.kind = "date"
    /\ Returns("holiday_name", holiday_name(input.date))

IsHoliday ==
    /\ op = "input" /\ input.kind = "date"
    /\ Returns("is_holiday", is_holiday(input.date))

\* is_no_workday: date.date().unwrap() panics on an absent date
IsNoWorkday ==
    /\ op = "input" /\ input.kind = "date"
    /\ IF DateLike_date(input.date).some
       THEN Returns("is_no_workday", is_no_workday(input.date))
       ELSE Panics("is_no_workday")

\* the specification of the calls on one date
SpecName == Init /\ [][DrawDate \/ HolidayName]_vars

\* the caller passes (year: i32, month: u32); months 0 and 13 are no months
DrawMonth ==
    /\ op = "idle"
    /\ \E y \in InputYears \cup {MAX.year + 1}, m \in 0..13 :
           input' = CallInput("month", None, None, y, m)
    /\ op' = "input"
    /\ UNCHANGED <<result, fault>>

\* the caller passes year: i32
DrawYear ==
    /\ op = "idle"
    /\ \E y \in InputYears \cup {MAX.year + 1} :
           input' = CallInput("year", None, None, y, 0)
    /\ op' = "input"
    /\ UNCHANGED <<result, fault>>

MonthHolidays ==
    /\ op = "input" /\ input.kind = "month"
    /\ Returns("month_holidays", month_holidays(input.year, input.month))

YearHolidays ==
    /\ op = "input" /\ input.kind = "year"
    /\ Returns("year_holidays", year_holidays(input.year))

\* the first year of the start dates of a range, and how many years of them
RangeFirstYear == 2019

RangeYears == 2

\* the longest range passed, in days after the start date
MaxSpan == 9

IsRangeStart(y, m, d) ==
    /\ d <= DaysInMonth(y, m)
    /\ \/ y >= RangeFirstYear /\ y < RangeFirstYear + RangeYears
       \/ y = MAX.year /\ m = 12 /\ d > 31 - EdgeDays

RangeInput(start, end) == CallInput("range", start, end, 0, 0)

\* the caller passes (start_date, end_date): an end up to MaxSpan days after
\* the start or up to two days before it, or an absent date for either
DrawRange ==
    /\ op = "idle"
    /\ \/ \E y \in RangeFirstYear..(RangeFirstYear + RangeYears - 1)
                       \cup {MAX.year},
             m \in 1..12, d \in 1..31, k \in (0 - 2)..MaxSpan :
              /\ IsRangeStart(y, m, d)
              /\ LET start == Ymd(y, m, d)
                     end == IF k >= 0 THEN AddDays(start, k)
                            ELSE pred_opt(IF k = 0 - 1 THEN start
                                          ELSE unwrap(pred_opt(start)))
                 IN  /\ end.some
                     /\ input' = RangeInput(Some(start), end)
       \/ \E x \in {None, Some(Ymd(RangeFirstYear, 1, 1))} :
              input' \in {RangeInput(None, x), RangeInput(x, None)}
    /\ op' = "input"
    /\ UNCHANGED <<result, fault>>

\* between / holidays: an absent date panics in unwrap(), and so does
\* succ_opt().unwrap() past the last representable date
RangeCall(name, r) ==
    IF r.panic THEN Panics(name) ELSE Returns(name, r.list)

Between ==
    /\ op = "input" /\ input.kind = "range"
    /\ RangeCall("between", between(input.date, input.end))

Holidays ==
    /\ op = "input" /\ input.kind = "range"
    /\ RangeCall("holidays", holidays(input.date, input.end))

\* the days of May of RangeFirstYear that the calls of one process are about
SessionDays == 6

\* an input of a call in a process that goes on calling: next to the
\* arguments, what the caller has kept of an earlier holiday_name(asked)
SessionInput(kind, date, end, asked, answer) ==
    [kind |-> kind, date |-> date, end |-> end, year |-> 0, month |-> 0,
     asked |-> asked, answer |-> answer]

\* the date the caller has kept an answer for, if any, and that answer
Asked == IF "asked" \in DOMAIN input THEN input.asked ELSE None

Answer == IF "asked" \in DOMAIN input THEN input.answer ELSE NoName

SessionDates == {Some(Ymd(RangeFirstYear, 5, d)) : d \in 1..SessionDays}

\* the caller passes a date of those days, or an absent date
DrawSessionDate ==
    /\ op = "idle"
    /\ \E x \in SessionDates \cup {None} :
           input' = SessionInput("date", x, None, Asked, Answer)
    /\ op' = "input"
    /\ UNCHANGED <<result, fault>>

\* the caller passes a range of those days
DrawSessionRange ==
    /\ op = "idle"
    /\ \E x \in SessionDates, y \in SessionDates :
           input' = SessionInput("range", x, y, Asked, Answer)
    /\ op' = "input"
    /\ UNCHANGED <<result, fault>>

\* the call is over and the process goes on (a panic was caught): nothing of
\* the library changes; after holiday_name the caller may keep the answer
EndCall ==
    /\ op \notin {"idle", "input"}
    /\ \/ input' = SessionInput("none", None, None, Asked, Answer)
       \/ /\ op = "holiday_name" /\ ~fault
          /\ input' = SessionInput("none", None, None, input.date, result)
    /\ op' = "idle"
    /\ UNCHANGED <<result, fault>>

\* a process that calls the public functions one after another
SpecSession ==
    Init /\ [][DrawSessionDate \/ DrawSessionRange \/ EndCall
                   \/ HolidayName \/ IsHoliday \/ IsNoWorkday
                   \/ Between]_vars

\* the years before 1900 and after 2150 on which the equinox days are computed
EquinoxYearsBefore == 2000

EquinoxYearsAfter == 10000

\* a rule passes date.year(): a year of those, or the first or the last
\* representable year
DrawEquinoxYear ==
    /\ op = "idle"
    /\ \E y \in (FormulaFirstYear - EquinoxYearsBefore)
                    ..(FormulaLastYear + EquinoxYearsAfter)
                    \cup {MIN.year, MAX.year} :
           input' = CallInput("year", None, None, y, 0)
    /\ op' = "input"
    /\ UNCHANGED <<result, fault>>

VernalEquinoxDayOfYear ==
    /\ op = "input" /\ input.kind = "year"
    /\ Returns("vernal_equinox_day", vernal_equinox_day(input.year))

AutumnalEquinoxDayOfYear ==
    /\ op = "input" /\ input.kind = "year"
    /\ Returns("autumnal_equinox_day", autumnal_equinox_day(input.year))

\* the two equinox days of a year
SpecEquinox ==
    Init /\ [][DrawEquinoxYear \/ VernalEquinoxDayOfYear
                   \/ AutumnalEquinoxDayOfYear]_vars

\* the years after RangeFirstYear of the dates passed to week_day
WeekDayYears == 7

\* (date: &NaiveDate, week: u32, weekday: u32)
WeekDayInput(date, week, weekday) ==
    [kind |-> "week_day", date |-> Some(date), end |-> None,
     year |-> 0, month |-> 0, week |-> week, weekday |-> weekday]

\* a rule passes (date, week, weekday): any day of a few years or of the
\* first or the last representable year, weeks 0..6 and weekdays 0..8
DrawWeekDay ==
    /\ op = "idle"
    /\ \E y \in RangeFirstYear..(RangeFirstYear + WeekDayYears - 1)
                    \cup {MIN.year, MAX.year},
          m \in 1..12, d \in 1..31, week \in 0..6, weekday \in 0..8 :
           /\ d <= DaysInMonth(y, m)
           /\ input' = WeekDayInput(Ymd(y, m, d), week, weekday)
    /\ op' = "input"
    /\ UNCHANGED <<result, fault>>

WeekDay ==
    /\ op = "input" /\ input.kind = "week_day"
    /\ IF week_day_overflows(input.date.val, input.week, input.weekday)
       THEN Panics("week_day")
       ELSE Returns("week_day",
                    week_day(input.date.val, input.week, input.weekday))

\* week_day on its own
SpecWeekDay == Init /\ [][DrawWeekDay \/ WeekDay]_vars

\* the year of the texts passed, and the numbers and separators in them
TextYear == 2024

TextMonths == 0..13

TextDays == {0, 1, 15, 29, 30, 31, 32}

Separators == {"-", "/", "."}

\* the caller passes a date as text (String or &str), well-formed or not; the
\* call works on what DateLike::date makes of it
DrawText ==
    /\ op = "idle"
    /\ \E s1 \in Separators, s2 \in Separators, m \in TextMonths,
          d \in TextDays :
           input' = DateInput(str_date(Text(TextYear, s1, m, s2, d)))
    /\ op' = "input"
    /\ UNCHANGED <<result, fault>>

\* the caller passes (start_date, end_date) as texts, each well-formed or not
DrawTextRange ==
    /\ op = "idle"
    /\ \E s \in Separators, m \in TextMonths, d \in TextDays, e \in TextDays :
           input' = RangeInput(str_date(Text(TextYear, "-", m, "-", d)),
                               str_date(Text(TextYear, s, m, s, e)))
    /\ op' = "input"
    /\ UNCHANGED <<result, fault>>

\* holiday_name, is_no_workday and between, called with texts
SpecText ==
    Init /\ [][DrawText \/ DrawTextRange \/ HolidayName \/ IsNoWorkday
                   \/ Between]_vars

\* the caller passes a day of the first or of the last representable year
DrawEdgeYearDate ==
    /\ op = "idle"
    /\ \E y \in {MIN.year, MAX.year}, m \in 1..12, d \in 1..31 :
           /\ d <= DaysInMonth(y, m)
           /\ input' = DateInput(Some(Ymd(y, m, d)))
    /\ op' = "input"
    /\ UNCHANGED <<result, fault>>

\* the rules and the substitute resolver, on the years of the inputs and on
\* the first and the last representable year
SpecRules ==
    Init /\ [][DrawDate \/ DrawEdgeYearDate \/ FilteredHoliday
                   \/ SubstituteHoliday]_vars

\* the resolvers under holiday_name
SpecResolver ==
    Init /\ [][DrawDate \/ FilteredHoliday \/ SubstituteHoliday
                   \/ SubstituteHolidayVisits
                   \/ CalcHolidayWithoutNationalHoliday]_vars

\* the two predicates on one date
SpecPredicates == Init /\ [][DrawDate \/ IsHoliday \/ IsNoWorkday]_vars

\* the lists of a month and of a year
SpecYear ==
    Init /\ [][DrawMonth \/ DrawYear \/ MonthHolidays \/ YearHolidays]_vars

\* the lists of a range
SpecBetween == Init /\ [][DrawRange \/ Between \/ Holidays]_vars

Next == DrawDate \/ FilteredHoliday \/ SubstituteHoliday
            \/ SubstituteHolidayVisits
            \/ CalcHolidayWithoutNationalHoliday \/ IsHolidayName
            \/ HolidayName \/ IsHoliday \/ IsNoWorkday
            \/ DrawMonth \/ DrawYear \/ DrawRange
            \/ DrawText \/ DrawTextRange
            \/ DrawWeekDay \/ WeekDay
            \/ DrawEquinoxYear \/ VernalEquinoxDayOfYear
            \/ AutumnalEquinoxDayOfYear
            \/ DrawSessionDate \/ DrawSessionRange \/ EndCall
            \/ DrawEdgeYearDate
            \/ MonthHolidays \/ YearHolidays \/ Between \/ Holidays

Spec == Init /\ [][Next]_vars

-----------------------------------------------------------------------------
(* The properties                                                          *)

\* the date of a call on a date that is present
D == input.date.val

OnDate(name) == op = name /\ input.kind = "date" /\ input.date.some

\* some member of HOLIDAYS matches date
Matched(date) ==
    \E i \in 1..Len(HOLIDAYS) : PublicHoliday_is_holiday(HOLIDAYS[i], date)

\* the name of the first member of HOLIDAYS, in list order, that matches date
FirstMatchName(date) ==
    LET i == CHOOSE k \in 1..Len(HOLIDAYS) :
                 /\ PublicHoliday_is_holiday(HOLIDAYS[k], date)
                 /\ \A j \in 1..(k - 1) :
                        ~PublicHoliday_is_holiday(HOLIDAYS[j], date)
    IN  PublicHoliday_name(HOLIDAYS[i])

\* the day n days before date (date itself once the range is left)
RECURSIVE Back(_, _)
Back(date, n) ==
    IF n = 0 \/ ~pred_opt(date).some THEN date
    ELSE Back(pred_opt(date).val, n - 1)

IsSunday(date) == number_from_monday(date) = 7

IsSubstituteName(r) ==
    /\ r.some
    /\ Len(r.val) > Len(SubstituteSuffix)
    /\ SubSeq(r.val, Len(r.val) - Len(SubstituteSuffix) + 1, Len(r.val))
           = SubstituteSuffix

\* how far behind a date the properties look for the Sunday of a substitute
MaxBack == 7

\* C1: for a date with a predecessor and a successor, holiday_name returns
\* the fixed label of the citizen's holiday, and nothing else in it, exactly
\* when the non-bridging resolver returns none for the date, the date is not
\* a Sunday, and the non-bridging resolver returns a name for both neighbours.
C1_CitizensHolidayIff ==
    (OnDate("holiday_name") /\ pred_opt(D).some /\ succ_opt(D).some) =>
        ((result = SomeName(NationalHoliday)) <=>
            /\ ~calc_holiday_without_national_holiday(D).some
            /\ ~IsSunday(D)
            /\ calc_holiday_without_national_holiday(pred_opt(D).val).some
            /\ calc_holiday_without_national_holiday(succ_opt(D).val).some)

\* a citizen's holiday between two named holidays has been returned
C1_Witness ==
    /\ OnDate("holiday_name")
    /\ pred_opt(D).some /\ succ_opt(D).some
    /\ result = SomeName(NationalHoliday)
    /\ Matched(pred_opt(D).val) /\ Matched(succ_opt(D).val)

C5_NoSubstituteBefore1973 ==
    (OnDate("holiday_name") /\ D.year < 1973) => ~IsSubstituteName(result)

\* the day after a Sunday holiday of a year before 1973 has been asked
C5_Witness ==
    /\ OnDate("holiday_name") /\ D.year < 1973 /\ D.year >= FormulaFirstYear
    /\ IsSunday(Back(D, 1)) /\ Matched(Back(D, 1))
    /\ ~result.some

\* C2: when some member of HOLIDAYS matches the date, the base resolver (and
\* holiday_name with it) returns the name of the first matching member in
\* list order, never a substitute name and never the citizen's holiday; when
\* none matches, it returns what the substitute resolver returns.
C2_FirstMatchWins ==
    OnDate("calc_holiday_without_national_holiday") =>
        IF Matched(D)
        THEN /\ result = SomeName(FirstMatchName(D))
             /\ ~IsSubstituteName(result)
             /\ result # SomeName(NationalHoliday)
             /\ holiday_name(input.date) = result
        ELSE result = substitute_holiday(D)

\* a rule matched a date that the substitute resolver would also name
C2_Witness ==
    /\ OnDate("calc_holiday_without_national_holiday")
    /\ Matched(D)
    /\ substitute_holiday(D).some
    /\ result = SomeName(FirstMatchName(D))

\* C4: a name returned by substitute_holiday(D) is X plus the suffix, with
\* year(D) >= 1973, D no Sunday, and a Sunday S before D such that every day
\* from S to D-1 is matched by a rule, S is the only Sunday among them and X
\* is the name of the first rule matching S; and the result is none when no
\* rule matches the day before D.
C4_SubstituteSound ==
    OnDate("substitute_holiday") =>
        /\ result.some =>
               /\ D.year >= 1973
               /\ ~IsSunday(D)
               /\ \E k \in 1..MaxBack :
                      LET S == Back(D, k)
                      IN  /\ IsSunday(S)
                          /\ \A j \in 1..k : Matched(Back(D, j))
                          /\ \A j \in 1..(k - 1) : ~IsSunday(Back(D, j))
                          /\ result.val = FirstMatchName(S) \o SubstituteSuffix
        /\ (pred_opt(D).some /\ ~Matched(pred_opt(D).val)) => ~result.some

\* a substitute was returned for a day two days after its Sunday
C4_Witness ==
    /\ OnDate("substitute_holiday")
    /\ result.some
    /\ IsSunday(Back(D, 2))
    /\ result.val = FirstMatchName(Back(D, 2)) \o SubstituteSuffix

\* C6: on every date of the years 1900 through 2150 at most one member of
\* HOLIDAYS matches, so every matching member carries the name that the
\* resolvers return, whatever the order of the list.
C6_RulesDisjoint ==
    (OnDate("filtered_holiday")
         /\ D.year >= FormulaFirstYear /\ D.year <= FormulaLastYear) =>
        /\ Cardinality(result) <= 1
        /\ \A h \in result : PublicHoliday_name(h) = FirstMatchName(D)

\* exactly one member matched a date of those years
C6_Witness ==
    /\ OnDate("filtered_holiday")
    /\ D.year >= FormulaFirstYear /\ D.year <= FormulaLastYear
    /\ Cardinality(result) = 1

\* C7: is_holiday(d) is true exactly when holiday_name(d) returns a name.
C7_IsHolidayIffName ==
    OnDate("is_holiday") => (result <=> holiday_name(input.date).some)

\* is_holiday returned true for a citizen's holiday
C7_Witness ==
    /\ OnDate("is_holiday")
    /\ result = TRUE
    /\ holiday_name(input.date) = SomeName(NationalHoliday)

\* C8: is_no_workday(d) is true exactly when d is a Saturday, a Sunday, or
\* is_holiday(d) is true.
C8_NoWorkdayIff ==
    OnDate("is_no_workday") =>
        /\ ~fault
        /\ result <=> \/ number_from_monday(D) = 6
                      \/ number_from_monday(D) = 7
                      \/ is_holiday(input.date)

\* is_no_workday returned true for a Saturday that is no holiday
C8_Witness ==
    /\ OnDate("is_no_workday")
    /\ number_from_monday(D) = 6
    /\ ~is_holiday(input.date)
    /\ result = TRUE

\* a < b on dates
DateLt(a, b) == DateLe(a, b) /\ a # b

\* list holds, in strictly ascending order of date, each with the name that
\* holiday_name gives it, exactly the dates among days that have a name
IsHolidayList(list, days) ==
    /\ \A i \in 1..Len(list) :
           /\ list[i].date \in days
           /\ holiday_name(Some(list[i].date)) = SomeName(list[i].name)
    /\ \A i \in 1..(Len(list) - 1) : DateLt(list[i].date, list[i + 1].date)
    /\ \A d \in days :
           holiday_name(Some(d)).some =>
               \E i \in 1..Len(list) : list[i].date = d

DaysOfYear(y) ==
    UNION {{from_ymd_opt(y, m, d).val :
                d \in {dd \in 1..31 : from_ymd_opt(y, m, dd).some}} :
           m \in 1..12}

\* C9: year_holidays(y) is month_holidays(y, 1) .. month_holidays(y, 12)
\* put end to end in that order; the list is strictly ascending by date, has
\* no date twice and omits no date of the year that holiday_name names.
C9_YearIsMonthsConcatenated ==
    (op = "year_holidays") =>
        LET y == input.year
        IN  /\ result = month_holidays(y, 1) \o month_holidays(y, 2)
                     \o month_holidays(y, 3) \o month_holidays(y, 4)
                     \o month_holidays(y, 5) \o month_holidays(y, 6)
                     \o month_holidays(y, 7) \o month_holidays(y, 8)
                     \o month_holidays(y, 9) \o month_holidays(y, 10)
                     \o month_holidays(y, 11) \o month_holidays(y, 12)
            /\ IsHolidayList(result, DaysOfYear(y))

\* the list of a year with a holiday in January and one in December
C9_Witness ==
    /\ op = "year_holidays"
    /\ Len(result) > 2
    /\ result[1].date.month = 1
    /\ result[Len(result)].date.month = 12

\* the days from start to end, both included
RECURSIVE DaysFromTo(_, _)
DaysFromTo(start, end) ==
    IF ~DateLe(start, end) THEN {}
    ELSE IF start = end \/ ~succ_opt(start).some THEN {start}
    ELSE {start} \cup DaysFromTo(succ_opt(start).val, end)

OnRange(name) ==
    op = name /\ input.kind = "range" /\ input.date.some /\ input.end.some

\* C10: for all dates start and end, between(start, end) and holidays(start,
\* end) return, in ascending order of date, exactly the pairs (d,
\* holiday_name(d)) of the days start <= d <= end that have a name: the empty
\* list when start > end, at most the pair of start when start = end.
C10_BetweenExact ==
    (OnRange("between") \/ OnRange("holidays")) =>
        LET start == input.date.val
            end == input.end.val
        IN  /\ ~fault
            /\ IsHolidayList(result, DaysFromTo(start, end))
            /\ DateLt(end, start) => result = <<>>
            /\ (start = end) =>
                   result = IF holiday_name(input.date).some
                            THEN <<[date |-> start,
                                    name |-> holiday_name(input.date).val]>>
                            ELSE <<>>

\* C11: the overflow at the end of the representable range is not fatal:
\* between(start, end) and holidays(start, end) with end the last
\* representable date stop after that date and return their list, without a
\* fault for the day after it.
C11_OverflowNotFatal ==
    ((OnRange("between") \/ OnRange("holidays")) /\ input.end.val = MAX) =>
        ~fault

\* the call was given an input that does not normalize to a date
NoDateGiven ==
    \/ input.kind = "date" /\ ~input.date.some
    \/ input.kind = "range" /\ (~input.date.some \/ ~input.end.some)

\* C12: on an input that does not normalize to a date (malformed text, absent
\* date) no public function faults, and each reports no holiday:
\* is_holiday_name and holiday_name return none, is_holiday and is_no_workday
\* return false, holidays and between return the empty list.
C12_MalformedIsNoHoliday ==
    (NoDateGiven /\ op \notin {"idle", "input"}) =>
        /\ ~fault
        /\ op \in {"is_holiday_name", "holiday_name"} => result = NoName
        /\ op \in {"is_holiday", "is_no_workday"} => result = FALSE
        /\ op \in {"holidays", "between"} => result = <<>>

\* C13: the backward scan of substitute_holiday terminates on every date, and
\* it has then visited at most a few hundred days (here: no more than 300);
\* when it returns a name, the last day it visited is the Sunday it found.
C13_ScanTerminates ==
    OnDate("substitute_holiday_visits") =>
        /\ result >= 0 /\ result <= 300
        /\ substitute_holiday(D).some =>
               /\ result >= 1
               /\ IsSunday(Back(D, result))
        /\ (D.year < 1973 \/ IsSunday(D)) => result = 0

\* a scan that walks over three holidays in a row before it finds its Sunday
C13_Witness ==
    /\ OnDate("substitute_holiday_visits")
    /\ result >= 3
    /\ substitute_holiday(D).some

\* the days of the month of date that fall on weekday within the week-th
\* seven days of the month
NthWeekdays(date, week, weekday) ==
    {d \in (7 * (week - 1) + 1)..(7 * week) :
        /\ d <= DaysInMonth(date.year, date.month)
        /\ number_from_monday(Ymd(date.year, date.month, d)) = weekday}

\* C14: week_day(date, week, weekday) with week in 1..5 and weekday in 1..7
\* returns the one day of the month of date that falls on weekday and has its
\* day of the month in 7*(week-1)+1 .. 7*week, or none when the month has no
\* such day, which happens for week 5 only; it returns none when week or
\* weekday is out of range; the day of the month of date plays no part.
C14_WeekDayIsNthWeekday ==
    (op = "week_day") =>
        LET date == input.date.val
            days == NthWeekdays(date, input.week, input.weekday)
        IN  /\ ~fault
            /\ IF input.week \in 1..5 /\ input.weekday \in 1..7
               THEN /\ Cardinality(days) <= 1
                    /\ days = {} => (input.week = 5 /\ result = None)
                    /\ \A d \in days :
                           result = Some(Ymd(date.year, date.month, d))
               ELSE result = None
            /\ result = week_day(Ymd(date.year, date.month, 1),
                                 input.week, input.weekday)

\* the year lies outside the years the equinox formula is valid for
OutsideFormula(y) == y <= 1948 \/ y > FormulaLastYear

Entry(date, holiday) == [date |-> date, name |-> PublicHoliday_name(holiday)]

\* C16: in 2020 the rules of Marine Day, Sports Day and Mountain Day match
\* 2020-07-23, 2020-07-24 and 2020-08-10 and no other date, in 2021 they match
\* 2021-07-22, 2021-07-23 and 2021-08-08 and no other date; their regular
\* dates (third Monday of July, second Monday of October, August 11) are not
\* matched in those years, and month_holidays of October is empty in both.
C16_OlympicYearExceptions ==
    (op = "month_holidays" /\ input.year \in {2020, 2021}
         /\ input.month \in 1..12) =>
        LET y == input.year
            m == input.month
            marine == IF y = 2020 THEN Ymd(2020, 7, 23) ELSE Ymd(2021, 7, 22)
            sports == IF y = 2020 THEN Ymd(2020, 7, 24) ELSE Ymd(2021, 7, 23)
            mountain == IF y = 2020 THEN Ymd(2020, 8, 10) ELSE Ymd(2021, 8, 8)
        IN  /\ \A d \in 1..DaysInMonth(y, m) :
                   /\ MarineDay(Ymd(y, m, d)) <=> (Ymd(y, m, d) = marine)
                   /\ SportsDay(Ymd(y, m, d)) <=> (Ymd(y, m, d) = sports)
                   /\ MountainDay(Ymd(y, m, d)) <=> (Ymd(y, m, d) = mountain)
            /\ m = 7 => result = <<Entry(marine, "MarineDay"),
                                   Entry(sports, "SportsDay")>>
            /\ m = 8 => result[1] = Entry(mountain, "MountainDay")
            /\ m = 10 => result = <<>>

\* the empty list of October 2021, whose second Monday is no holiday
C16_Witness ==
    /\ op = "month_holidays"
    /\ input.year = 2021 /\ input.month = 10
    /\ result = <<>>
    /\ ~SportsDay(unwrap(week_day(Ymd(2021, 10, 1), 2, 1)))

\* the literal date of each imperial-ceremony member of HOLIDAYS
ImperialDate ==
    [h \in {"ImperialEventsTheWeddingCeremonyOfCrownPrinceAkihito",
            "ImperialEventsTheFuneralOfEmperorShowa",
            "ImperialEventsTheCeremonyOfTheEnthronementOfTheEmperor",
            "ImperialEventsTheWeddingCeremonyOfCrownPrinceNaruhito",
            "ImperialEventsTheDayOfTheEmperorsEnthronement",
            "ImperialEventsTheEnthronementCeremony"} |->
        CASE h = "ImperialEventsTheWeddingCeremonyOfCrownPrinceAkihito" ->
                 Ymd(1959, 4, 10)
          [] h = "ImperialEventsTheFuneralOfEmperorShowa" -> Ymd(1989, 2, 24)
          [] h = "ImperialEventsTheCeremonyOfTheEnthronementOfTheEmperor" ->
                 Ymd(1990, 11, 12)
          [] h = "ImperialEventsTheWeddingCeremonyOfCrownPrinceNaruhito" ->
                 Ymd(1993, 6, 9)
          [] h = "ImperialEventsTheDayOfTheEmperorsEnthronement" ->
                 Ymd(2019, 5, 1)
          [] OTHER -> Ymd(2019, 10, 22)]

\* C17: each imperial-ceremony rule fires on exactly one literal date and on
\* no other date of any year: 1959-04-10, 1989-02-24, 1990-11-12, 1993-06-09,
\* 2019-05-01 and 2019-10-22 are each matched by exactly one such rule, and the
\* same month and day of another year is matched by none.
C17_ImperialEventsOneDate ==
    OnDate("filtered_holiday") =>
        LET imperial == result \cap DOMAIN ImperialDate
        IN  /\ \A h \in DOMAIN ImperialDate :
                   PublicHoliday_is_holiday(h, D) <=> (D = ImperialDate[h])
            /\ \A h \in imperial : D = ImperialDate[h]
            /\ Cardinality(imperial) =
                   IF \E h \in DOMAIN ImperialDate : D = ImperialDate[h]
                   THEN 1 ELSE 0

\* the enthronement of 1990 is matched by its rule, and by that rule only
C17_Witness ==
    /\ OnDate("filtered_holiday")
    /\ D = Ymd(1990, 11, 12)
    /\ result = {"ImperialEventsTheCeremonyOfTheEnthronementOfTheEmperor"}

\* C18: in the abdication period of 2019 both bridge days are citizen's
\* holidays: holiday_name(2019-04-30) and holiday_name(2019-05-02) are the
\* citizen's holiday, holiday_name(2019-05-01) is the day of the emperor's
\* enthronement and holiday_name(2019-05-06) is the substitute of Children's
\* Day, whereas holiday_name(1992-05-06) is none.
C18_AbdicationPeriod ==
    OnDate("holiday_name") =>
        /\ D \in {Ymd(2019, 4, 30), Ymd(2019, 5, 2)} =>
               result = SomeName(NationalHoliday)
        /\ D = Ymd(2019, 5, 1) =>
               result = SomeName(PublicHoliday_name(
                            "ImperialEventsTheDayOfTheEmperorsEnthronement"))
        /\ D = Ymd(2019, 5, 6) =>
               result = SomeName(PublicHoliday_name("ChildrensDay")
                                     \o SubstituteSuffix)
        /\ D = Ymd(1992, 5, 6) => result = NoName

\* the bridge day between the enthronement and Constitution Memorial Day
C18_Witness ==
    /\ OnDate("holiday_name")
    /\ D = Ymd(2019, 5, 2)
    /\ result = SomeName(NationalHoliday)
    /\ ~Matched(D)

\* the authors' table: a year and the number of its holidays
HolidayCounts ==
    << <<1971, 13>>, <<1988, 14>>, <<1989, 17>>, <<1992, 14>>, <<1997, 16>>,
       <<1998, 15>>, <<1999, 17>>, <<2000, 15>>, <<2001, 19>>, <<2002, 18>>,
       <<2003, 15>>, <<2004, 15>>, <<2005, 16>>, <<2006, 16>>, <<2007, 19>>,
       <<2008, 17>>, <<2009, 17>>, <<2010, 16>>, <<2011, 15>>, <<2012, 18>>,
       <<2013, 17>>, <<2014, 17>>, <<2015, 17>>, <<2016, 17>>, <<2017, 17>>,
       <<2018, 20>>, <<2019, 22>>, <<2020, 18>>, <<2021, 17>>, <<2022, 16>>,
       <<2023, 17>>, <<2024, 21>>, <<2025, 19>> >>

\* C19: year_holidays(y) has as many entries as the authors' table says, for
\* every year of the table; month_holidays(2024, 9) has exactly three entries:
\* Respect for the Aged Day, the autumnal equinox and the substitute of the
\* autumnal equinox.
C19_HolidayCounts ==
    /\ (op = "year_holidays") =>
           \A i \in 1..Len(HolidayCounts) :
               input.year = HolidayCounts[i][1] =>
                   Len(result) = HolidayCounts[i][2]
    /\ (op = "month_holidays" /\ input.year = 2024 /\ input.month = 9) =>
           /\ Len(result) = 3
           /\ result[1].name = PublicHoliday_name("RespectForTheAgedDay")
           /\ result[2].name = PublicHoliday_name("AutumnalEquinoxDay")
           /\ result[3].name = PublicHoliday_name("AutumnalEquinoxDay")
                                   \o SubstituteSuffix

\* the twenty-one holidays of 2024
C19_Witness ==
    /\ op = "year_holidays"
    /\ input.year = 2024
    /\ Len(result) = 21

C21_BridgeNotOnItself ==
    (OnDate("holiday_name") /\ result = SomeName(NationalHoliday)) =>
        /\ pred_opt(D).some /\ succ_opt(D).some
        /\ holiday_name(pred_opt(D)) # SomeName(NationalHoliday)
        /\ holiday_name(succ_opt(D)) # SomeName(NationalHoliday)
        /\ holiday_name(pred_opt(D))
               = calc_holiday_without_national_holiday(pred_opt(D).val)
        /\ holiday_name(succ_opt(D))
               = calc_holiday_without_national_holiday(succ_opt(D).val)

\* a citizen's holiday whose day before is named by a rule and is itself the
\* day after a day that no resolver names
C21_Witness ==
    /\ OnDate("holiday_name")
    /\ result = SomeName(NationalHoliday)
    /\ holiday_name(pred_opt(D)).some
    /\ holiday_name(succ_opt(D)).some
    /\ ~holiday_name(pred_opt(Back(D, 1))).some
    /\ D.year >= 1985

\* C22: May 4 of the years 1971 through 2006, which no rule matches: its
\* holiday_name is none on a Sunday, the substitute of Constitution Memorial
\* Day on a Monday (the substitute wins over the bridge) and the citizen's
\* holiday on every other weekday, Saturday included; from 2007 on it is
\* Greenery Day on every weekday.
C22_MayFourth ==
    (OnDate("holiday_name") /\ D.month = 5 /\ D.day = 4 /\ D.year >= 1971) =>
        IF D.year <= 2006
        THEN CASE number_from_monday(D) = 7 -> result = NoName
               [] number_from_monday(D) = 1 ->
                      result = SomeName(
                          PublicHoliday_name("ConstitutionMemorialDay")
                              \o SubstituteSuffix)
               [] OTHER -> result = SomeName(NationalHoliday)
        ELSE result = SomeName(PublicHoliday_name("GreeneryDay"))

\* a Monday May 4 before 2007 that has a holiday on both sides and got the
\* substitute name
C22_Witness ==
    /\ OnDate("holiday_name")
    /\ D.month = 5 /\ D.day = 4 /\ D.year >= 1971 /\ D.year <= 2006
    /\ number_from_monday(D) = 1
    /\ Matched(pred_opt(D).val) /\ Matched(succ_opt(D).val)
    /\ IsSubstituteName(result)

\* the one date of year y that is the Emperor's Birthday, none in 2019 and
\* before 1948
BirthdayOfEra(y) ==
    IF y >= 1948 /\ y <= 1988 THEN Some(Ymd(y, 4, 29))
    ELSE IF y >= 1989 /\ y <= 2018 THEN Some(Ymd(y, 12, 23))
    ELSE IF y >= 2020 THEN Some(Ymd(y, 2, 23))
    ELSE None

\* C23: the Emperor's Birthday rule matches a date exactly when it is April 29
\* of 1948..1988, December 23 of 1989..2018 or February 23 of 2020 or later,
\* so it matches no date of 2019 or of a year before 1948; on April 29 the one
\* matching rule is the Emperor's Birthday through 1988, Greenery Day from
\* 1989 through 2006 and Showa Day from 2007 on.
C23_EmperorsBirthdayEras ==
    OnDate("filtered_holiday") =>
        /\ ("EmperorsBirthday" \in result) <=> (Some(D) = BirthdayOfEra(D.year))
        /\ (D.year = 2019 \/ D.year < 1948) => "EmperorsBirthday" \notin result
        /\ (D.month = 4 /\ D.day = 29 /\ D.year >= 1948) =>
               result = IF D.year <= 1988 THEN {"EmperorsBirthday"}
                        ELSE IF D.year <= 2006 THEN {"GreeneryDay"}
                        ELSE {"ShowaDay"}

\* December 23 of 2019, the year without an Emperor's Birthday, matched by no
\* rule, a year after the rule matched that date
C23_Witness ==
    /\ OnDate("filtered_holiday")
    /\ D = Ymd(2019, 12, 23)
    /\ result = {}
    /\ EmperorsBirthday(Ymd(2018, 12, 23))

\* date is the Monday among the seven days of its month that start at first
IsMondayFrom(date, first) ==
    /\ date.day >= first /\ date.day <= first + 6
    /\ number_from_monday(date) = 1

\* the days of month m of year y that the member holiday of HOLIDAYS matches
RuleDays(holiday, y, m) ==
    {d \in 1..DaysInMonth(y, m) : PublicHoliday_is_holiday(holiday, Ymd(y, m, d))}

\* C24: the rules of the n-th Monday.  Coming of Age Day matches the Monday
\* among January 8..14 from 2000 and January 15 before; Health and Sports Day
\* the Monday among October 8..14 from 2000 through 2019 and October 10 from
\* 1966 through 1999; Sports Day the Monday among October 8..14 from 2022;
\* Marine Day the Monday among July 15..21 from 2003 (2020 and 2021 apart) and
\* July 20 from 1996 through 2002; Respect for the Aged Day the Monday among
\* September 15..21 from 2003 and September 15 from 1966 through 2002.  Each
\* matches no other date, hence exactly one date in each year it applies to.
C24_NthMondayRules ==
    OnDate("filtered_holiday") =>
        LET y == D.year
        IN  /\ ("ComingOfAgeDay" \in result) <=>
                   /\ D.month = 1
                   /\ IF y >= 2000 THEN IsMondayFrom(D, 8) ELSE D.day = 15
            /\ ("HealthAndSportsDay" \in result) <=>
                   /\ D.month = 10
                   /\ IF y >= 2000 /\ y <= 2019 THEN IsMondayFrom(D, 8)
                      ELSE y >= 1966 /\ y <= 1999 /\ D.day = 10
            /\ y >= 2022 =>
                   (("SportsDay" \in result) <=>
                        (D.month = 10 /\ IsMondayFrom(D, 8)))
            /\ y \notin {2020, 2021} =>
                   (("MarineDay" \in result) <=>
                        /\ D.month = 7
                        /\ IF y >= 2003 THEN IsMondayFrom(D, 15)
                           ELSE y >= 1996 /\ D.day = 20)
            /\ ("RespectForTheAgedDay" \in result) <=>
                   /\ D.month = 9
                   /\ IF y >= 2003 THEN IsMondayFrom(D, 15)
                      ELSE y >= 1966 /\ D.day = 15
            /\ (D.day = 1 /\ D.month = 1) =>
                   Cardinality(RuleDays("ComingOfAgeDay", y, 1)) = 1
            /\ (D.day = 1 /\ D.month = 7 /\ y >= 1996) =>
                   Cardinality(RuleDays("MarineDay", y, 7)) = 1
            /\ (D.day = 1 /\ D.month = 9 /\ y >= 1966) =>
                   Cardinality(RuleDays("RespectForTheAgedDay", y, 9)) = 1
            /\ (D.day = 1 /\ D.month = 10 /\ y >= 1966 /\ y <= 2019) =>
                   Cardinality(RuleDays("HealthAndSportsDay", y, 10)) = 1
            /\ (D.day = 1 /\ D.month = 10 /\ y >= 2022) =>
                   Cardinality(RuleDays("SportsDay", y, 10)) = 1

\* a Coming of Age Day on January 8, the earliest second Monday, in a year
\* whose January 15 is matched by no rule
C24_Witness ==
    /\ OnDate("filtered_holiday")
    /\ D.month = 1 /\ D.day = 8 /\ D.year >= 2000
    /\ result = {"ComingOfAgeDay"}
    /\ ~Matched(Ymd(D.year, 1, 15))

\* the years of the inputs in which the member holiday of HOLIDAYS matches
\* some date
RuleYears(holiday) ==
    {y \in Years : \E m \in 1..12 : RuleDays(holiday, y, m) # {}}

\* the members of HOLIDAYS that match one date of one year and no other
SingleDateRules ==
    {i \in 1..Len(HOLIDAYS) :
        /\ Cardinality(RuleYears(HOLIDAYS[i])) = 1
        /\ \A y \in RuleYears(HOLIDAYS[i]) :
               Cardinality({m \in 1..12 : RuleDays(HOLIDAYS[i], y, m) # {}}) = 1
        /\ \A y \in RuleYears(HOLIDAYS[i]) : \A m \in 1..12 :
               Cardinality(RuleDays(HOLIDAYS[i], y, m)) <= 1}

\* C25 as stated: HOLIDAYS consists of the recurring rules plus eight
\* single-date imperial-ceremony rules.  Read on the day of the enthronement
\* of 2019, which one of them matches.
C25_EightImperialRules ==
    (OnDate("filtered_holiday") /\ D = Ymd(2019, 5, 1)) =>
        /\ result \subseteq {HOLIDAYS[i] : i \in SingleDateRules}
        /\ Cardinality(SingleDateRules) = 8

\* C25 amended: HOLIDAYS consists of seventeen recurring rules, each matching
\* dates of several years, plus six single-date imperial-ceremony rules, its
\* last six members.
C25_SixImperialRules ==
    (OnDate("filtered_holiday") /\ D = Ymd(2019, 5, 1)) =>
        /\ result \subseteq {HOLIDAYS[i] : i \in SingleDateRules}
        /\ Cardinality(SingleDateRules) = 6
        /\ SingleDateRules = (Len(HOLIDAYS) - 5)..Len(HOLIDAYS)
        /\ {HOLIDAYS[i] : i \in SingleDateRules} = DOMAIN ImperialDate
        /\ \A i \in 1..(Len(HOLIDAYS) - 6) :
               Cardinality(RuleYears(HOLIDAYS[i])) > 1
        /\ Len(HOLIDAYS) = 17 + 6

\* the day of the enthronement of 2019 is matched by its single-date rule
C25_Witness ==
    /\ OnDate("filtered_holiday")
    /\ D = Ymd(2019, 5, 1)
    /\ result = {"ImperialEventsTheDayOfTheEmperorsEnthronement"}
    /\ ~Matched(Ymd(2020, 5, 1))

\* C26: evaluating the members of HOLIDAYS on a date never panics, and
\* neither does substitute_holiday: week_day(date, 2, 1) and
\* week_day(date, 3, 1) return a date of the month of date without leaving
\* the representable range, in every month of every year, so no unwrap of a
\* rule fails, and the scan of substitute_holiday never steps below the first
\* representable date.  week_day reads the year and the month of its date
\* only, so its two calls are stated on the first day of each month.
C26_RulesNeverFault ==
    (OnDate("filtered_holiday") \/ OnDate("substitute_holiday")) =>
        /\ ~fault
        /\ D.day = 1 =>
               \A week \in {2, 3} :
                   LET monday == week_day(D, week, 1)
                   IN  /\ ~week_day_overflows(D, week, 1)
                       /\ monday.some
                       /\ monday.val.year = D.year
                       /\ monday.val.month = D.month
                       /\ number_from_monday(monday.val) = 1

\* Sports Day evaluated, without a panic, in October of the last
\* representable year, where week_day is called
C26_Witness ==
    /\ OnDate("filtered_holiday")
    /\ D.year = MAX.year /\ D.month = 10
    /\ result = {"SportsDay"}
    /\ ~fault

\* C27: no date before the holiday law of 1948 is a holiday: holiday_name of
\* every date of a year before 1948 is none.
C27_NoHolidayBefore1948 ==
    (OnDate("holiday_name") /\ D.year < 1948) => result = NoName

\* C28: a citizen's holiday lies between two rule holidays: when holiday_name
\* of a date is the citizen's holiday, the day after is matched by a member
\* of HOLIDAYS and is no substitute holiday, and in the years 1948 through
\* 2150 so is the day before.
C28_BridgeBetweenRuleHolidays ==
    (OnDate("holiday_name") /\ result = SomeName(NationalHoliday)) =>
        /\ Matched(succ_opt(D).val)
        /\ ~IsSubstituteName(
               calc_holiday_without_national_holiday(succ_opt(D).val))
        /\ (D.year >= 1948 /\ D.year <= FormulaLastYear) =>
               /\ Matched(pred_opt(D).val)
               /\ ~IsSubstituteName(
                      calc_holiday_without_national_holiday(pred_opt(D).val))

\* a citizen's holiday of September, between Respect for the Aged Day and
\* the autumnal equinox
C28_Witness ==
    /\ OnDate("holiday_name")
    /\ result = SomeName(NationalHoliday)
    /\ D.month = 9
    /\ RespectForTheAgedDay(pred_opt(D).val)
    /\ AutumnalEquinoxDay(succ_opt(D).val)

\* C29: no four days in a row are each matched by a member of HOLIDAYS; the
\* scan of substitute_holiday visits at most 4 days; a substitute holiday is
\* a Monday, Tuesday or Wednesday, at most 3 days after the Sunday holiday it
\* is named after, with every day between matched.
C29_ShortHolidayRuns ==
    /\ (OnDate("filtered_holiday") /\ result # {} /\ D.year > MIN.year) =>
           ~(\A k \in 1..3 : Matched(Back(D, k)))
    /\ OnDate("substitute_holiday_visits") => result <= 4
    /\ (OnDate("substitute_holiday") /\ result.some) =>
           /\ number_from_monday(D) \in {1, 2, 3}
           /\ LET S == Back(D, number_from_monday(D))
              IN  /\ IsSunday(S)
                  /\ result.val = FirstMatchName(S) \o SubstituteSuffix
                  /\ \A k \in 1..number_from_monday(D) : Matched(Back(D, k))

\* the longest scan: four days visited back from a day after May 3, 4 and 5
C29_Witness ==
    /\ OnDate("substitute_holiday_visits")
    /\ result = 4
    /\ D.month = 5 /\ D.day = 6 /\ D.year >= 2007
    /\ \A k \in 1..3 : Matched(Back(D, k))
    /\ ~Matched(Back(D, 4))

\* floor(c + 0.242194 * (y - 1980) - floor((y - 1980) / 4)), with c given in
\* 1/10000 and y within 1000 years of 1980
EquinoxFormula(c, y) ==
    ((c * 100 + 242194 * (y - 1980)) \div 1000000) - ((y - 1980) \div 4)

\* C30: for every year from 1949 through 2150 the vernal equinox day is the
\* value of the formula with 20.8357 (1900-1979), 20.8431 (1980-2099) or
\* 21.8510 (2100-2150), lies in 19..21 and is the one day of March that the
\* rule matches; the autumnal equinox day is the value with 23.2588, 23.2488
\* or 24.2488, lies in 22..24 and is the one day of September that the rule
\* matches.
C30_EquinoxOncePerYear ==
    (op \in {"vernal_equinox_day", "autumnal_equinox_day"}
         /\ input.year >= 1949 /\ input.year <= FormulaLastYear) =>
        LET y == input.year
            band == IF y <= 1979 THEN 1 ELSE IF y <= 2099 THEN 2 ELSE 3
        IN  IF op = "vernal_equinox_day"
            THEN /\ result = EquinoxFormula(<<208357, 208431, 218510>>[band], y)
                 /\ result \in 19..21
                 /\ RuleDays("VernalEquinoxDay", y, 3) = {result}
            ELSE /\ result = EquinoxFormula(<<232588, 232488, 242488>>[band], y)
                 /\ result \in 22..24
                 /\ RuleDays("AutumnalEquinoxDay", y, 9) = {result}

\* the vernal equinox of the first year of the last band, March 20, which
\* the constant of the band before would put on March 19
C30_Witness ==
    /\ op = "vernal_equinox_day"
    /\ input.year = 2100
    /\ result = 20
    /\ VernalEquinoxDay(Ymd(2100, 3, 20))
    /\ EquinoxFormula(208431, 2100) = 19

====
